---- MODULE Spec2Model ----
(***************************************************************************)
(* A model of the ENTSO-E day-ahead price pipeline of scrape_entsoe.py:    *)
(* fetch_day_ahead_prices = HTTP answer -> parse_entsoe_response ->        *)
(* validate_price_data -> format_price_data.                               *)
(*                                                                         *)
(* Time is counted in quarter-hours since 00:00 UTC of day 0.  Prices are  *)
(* exact rationals [n, d] in EUR/MWh.  Where the rounding of Python's      *)
(* binary floats decides an outcome (a decimal tie in round(), two block   *)
(* sums that are equal as exact numbers) the outcome is left open.         *)
(***************************************************************************)
EXTENDS Integers, Sequences, FiniteSets, TLC

VARIABLES host_zone, target_date, response, pc, prices, data,
          main_pc, today, attempts, collected_data, files,
          lum_pc, contacted, result

vars == <<host_zone, target_date, response, pc, prices, data,
         main_pc, today, attempts, collected_data, files,
         lum_pc, contacted, result>>

\* What main holds: its position, the date it takes for today, the calls of
\* fetch_day_ahead_prices it has made, collected_data, and the files.
main_vars == <<main_pc, today, attempts, collected_data, files>>

\* What fetch_prices of scrape_luminus.py holds: its position, the sources it
\* has contacted with their answers, and what it returns.
lum_vars == <<lum_pc, contacted, result>>

----------------------------------------------------------------------------
(* Bounds of the model.                                                    *)

\* Day on which the market zone switches to summer time (01:00 UTC).
SpringDay == 2
\* Day on which the market zone switches back to winter time (01:00 UTC).
FallDay == 4
\* Largest number of points of a period in the small documents.
MaxPts == 2
\* Number of price patterns of the full-day documents.
NumPatterns == 2
\* Values datetime.now() may take when a record is formatted.
MaxClock == 1

----------------------------------------------------------------------------
(* Calendar arithmetic.                                                    *)

\* timedelta(minutes=15) is the time unit; an hour holds four of them.
QuartersPerHour == 4
QuartersPerDay == 24 * QuartersPerHour

\* UTC offset of the market zone (Europe/Brussels): CET, or CEST between the
\* two transitions, each at 01:00 UTC.
MarketOffset(t) ==
    IF t >= SpringDay * QuartersPerDay + QuartersPerHour
       /\ t < FallDay * QuartersPerDay + QuartersPerHour
    THEN 2 * QuartersPerHour
    ELSE QuartersPerHour

\* datetime.astimezone() with no argument: the zone of the host.
HostOffset(zone, t) ==
    IF zone = "UTC" THEN 0 ELSE MarketOffset(t)

\* An aware datetime: the instant and the UTC offset it is shown with.
AsTimezone(zone, t) == [utc |-> t, off |-> HostOffset(zone, t)]

\* datetime.date() of an aware datetime, as a day number.
DateOf(dt) == (dt.utc + dt.off) \div QuartersPerDay

\* The hour of day of an aware datetime.
HourOf(dt) == ((dt.utc + dt.off) % QuartersPerDay) \div QuartersPerHour

\* strftime('%Y-%m-%d %H')
HourKeyOf(dt) == <<DateOf(dt), HourOf(dt)>>

\* datetime.isoformat(): wall-clock time followed by the offset.
IsoFormat(dt) == [wall |-> dt.utc + dt.off, off |-> dt.off]

\* The market zone's calendar date of an instant, and the number of hours of
\* a market-zone calendar date.
MarketDate(t) == (t + MarketOffset(t)) \div QuartersPerDay

TrueHourCount(d) ==
    Cardinality({h \in ((d - 1) * 24)..((d + 1) * 24) :
                    MarketDate(h * QuartersPerHour) = d})

\* The instant of 00:00 of date d in the market zone.
MarketMidnight(d) ==
    QuartersPerHour *
      (CHOOSE h \in ((d - 1) * 24)..((d + 1) * 24) :
          /\ MarketDate(h * QuartersPerHour) = d
          /\ MarketDate((h - 1) * QuartersPerHour) = d - 1)

----------------------------------------------------------------------------
(* Exact arithmetic on prices.                                             *)

Abs(x) == IF x < 0 THEN -x ELSE x

RECURSIVE GCD(_, _)
GCD(a, b) == IF b = 0 THEN a ELSE GCD(b, a % b)

\* The rational n/d (d > 0) in lowest terms.
Rat(n, d) == LET g == GCD(Abs(n), d) IN [n |-> n \div g, d |-> d \div g]

RInt(i) == [n |-> i, d |-> 1]
RAdd(x, y) == Rat(x.n * y.d + y.n * x.d, x.d * y.d)
RSub(x, y) == Rat(x.n * y.d - y.n * x.d, x.d * y.d)
RDivInt(x, k) == Rat(x.n, x.d * k)
RMulInt(x, k) == Rat(x.n * k, x.d)
RLess(x, y) == x.n * y.d < y.n * x.d
RLeq(x, y) == x.n * y.d <= y.n * x.d

\* max() and min() of a non-empty set of rationals.
RMax(S) == CHOOSE x \in S : \A y \in S : RLeq(y, x)
RMin(S) == CHOOSE x \in S : \A y \in S : RLeq(x, y)

RECURSIVE RSum(_)
RSum(s) == IF s = <<>> THEN RInt(0) ELSE RAdd(Head(s), RSum(Tail(s)))

\* round(x, digits) for digits in 0..4: the nearest multiple of 10^-digits.
\* When x lies exactly halfway between two of them, the binary float that
\* stands for x decides, which the exact number does not tell: ties = 0
\* sends a tie to the even neighbour, ties = 1 to the odd one.
Pow10(k) == CASE k = 0 -> 1 [] k = 1 -> 10 [] k = 2 -> 100
              [] k = 3 -> 1000 [] k = 4 -> 10000

Round(x, digits, ties) ==
    LET num == x.n * Pow10(digits)
        q == num \div x.d
        r == num % x.d
        up == \/ 2 * r > x.d
              \/ (2 * r = x.d /\ (q + ties) % 2 = 1)
    IN Rat(IF up THEN q + 1 ELSE q, Pow10(digits))

TieRules == {0, 1}

----------------------------------------------------------------------------
(* parse_entsoe_response                                                   *)

\* The time delta of a resolution text; anything but PT15M and PT30M counts
\* as one hour.
TimeDelta(resolution) ==
    CASE resolution = "PT15M" -> 1
      [] resolution = "PT30M" -> 2
      [] OTHER -> QuartersPerHour

\* Whether the local dates of a period's start and end enclose the target.
CoversTargetDate(zone, period, target) ==
    LET period_end == period.start
                        + TimeDelta(period.resolution) * Len(period.points)
        period_start_date == DateOf(AsTimezone(zone, period.start))
        period_end_date == DateOf(AsTimezone(zone, period_end))
    IN \/ (period_start_date <= target /\ target <= period_end_date)
       \/ target = period_start_date
       \/ target = period_end_date

\* Mutant of PointTime: positions counted from 0.
PointTime_ZeroBased(period, pt) ==
    period.start + TimeDelta(period.resolution) * pt.position

\* The timestamp a point is given: the period start plus (position - 1) steps.
PointTime(period, pt) ==
    period.start + TimeDelta(period.resolution) * (pt.position - 1)

\* The local-date test of one point, in the zone of the host.
OnTargetDate(zone, t, target) == DateOf(AsTimezone(zone, t)) = target

\* The dictionary appended to all_points for one point.
PointRecord(zone, period, pt) ==
    [datetime |-> AsTimezone(zone, PointTime(period, pt)),
     position |-> pt.position,
     price_eur_mwh |-> pt.price,
     price_eur_kwh |-> RDivInt(pt.price, 1000),
     period_start |-> period.start,
     resolution |-> period.resolution]

\* Mutant of DecodePoints: the first point that does not parse ends the loop.
RECURSIVE DecodePoints_StopAtBad(_, _, _, _)
DecodePoints_StopAtBad(zone, period, pts, target) ==
    IF pts = <<>> \/ ~Head(pts).valid THEN <<>>
    ELSE LET pt == Head(pts)
             rest == DecodePoints_StopAtBad(zone, period, Tail(pts), target)
         IN IF OnTargetDate(zone, PointTime(period, pt), target)
            THEN <<PointRecord(zone, period, pt)>> \o rest
            ELSE rest

\* The loop over the Point elements of one period: a point whose position or
\* price is missing or does not parse is passed over, and so is a point whose
\* local date is not the target date.
RECURSIVE DecodePoints(_, _, _, _)
DecodePoints(zone, period, pts, target) ==
    IF pts = <<>> THEN <<>>
    ELSE LET pt == Head(pts)
             rest == DecodePoints(zone, period, Tail(pts), target)
         IN IF pt.valid /\ OnTargetDate(zone, PointTime(period, pt), target)
            THEN <<PointRecord(zone, period, pt)>> \o rest
            ELSE rest

\* One pass of the loop over periods: a period without a readable start,
\* without points, or not covering the target date contributes nothing.
CollectPeriod(zone, period, target) ==
    IF \/ ~period.startOk
       \/ period.points = <<>>
       \/ ~CoversTargetDate(zone, period, target)
    THEN <<>>
    ELSE DecodePoints(zone, period, period.points, target)

RECURSIVE CollectPeriods(_, _, _)
CollectPeriods(zone, periods, target) ==
    IF periods = <<>> THEN <<>>
    ELSE CollectPeriod(zone, Head(periods), target)
           \o CollectPeriods(zone, Tail(periods), target)

\* all_points: every TimeSeries of the document, every period of it.
RECURSIVE CollectPoints(_, _, _)
CollectPoints(zone, doc, target) ==
    IF doc = <<>> THEN <<>>
    ELSE CollectPeriods(zone, Head(doc).periods, target)
           \o CollectPoints(zone, Tail(doc), target)

\* list.sort(key=datetime): stable, aware datetimes compare by instant.
RECURSIVE InsertByDatetime(_, _)
InsertByDatetime(x, s) ==
    IF s = <<>> THEN <<x>>
    ELSE IF Head(s).datetime.utc <= x.datetime.utc
         THEN <<Head(s)>> \o InsertByDatetime(x, Tail(s))
         ELSE <<x>> \o s

RECURSIVE SortFrom(_, _)
SortFrom(sorted, rest) ==
    IF rest = <<>> THEN sorted
    ELSE SortFrom(InsertByDatetime(Head(rest), sorted), Tail(rest))

SortByDatetime(s) == SortFrom(<<>>, s)

\* datetime.replace(minute=0, second=0, microsecond=0)
TruncateToHour(dt) ==
    [utc |-> ((dt.utc + dt.off) \div QuartersPerHour) * QuartersPerHour - dt.off,
     off |-> dt.off]

\* sorted() of a set of aware datetimes.
RECURSIVE SortedDatetimes(_)
SortedDatetimes(S) ==
    IF S = {} THEN <<>>
    ELSE LET first == CHOOSE x \in S : \A y \in S : x.utc <= y.utc
         IN <<first>> \o SortedDatetimes({y \in S : y.utc # first.utc})

\* The prices of the points of one hour, in list order.
RECURSIVE PricesOfHour(_, _)
PricesOfHour(points, hour_time) ==
    IF points = <<>> THEN <<>>
    ELSE (IF TruncateToHour(Head(points).datetime).utc = hour_time.utc
          THEN <<Head(points).price_eur_mwh>> ELSE <<>>)
           \o PricesOfHour(Tail(points), hour_time)

\* Mutant of HourlyAverage: the first price of the hour, not the mean.
HourlyAverage_First(points, hour_time) ==
    LET hprices == PricesOfHour(points, hour_time)
    IN [datetime |-> hour_time,
        price_eur_mwh |-> hprices[1],
        price_eur_kwh |-> RDivInt(hprices[1], 1000),
        resolution |-> "PT60M",
        data_points |-> Len(hprices)]

HourlyAverage(points, hour_time) ==
    LET hprices == PricesOfHour(points, hour_time)
        avg_price == RDivInt(RSum(hprices), Len(hprices))
    IN [datetime |-> hour_time,
        price_eur_mwh |-> avg_price,
        price_eur_kwh |-> RDivInt(avg_price, 1000),
        resolution |-> "PT60M",
        data_points |-> Len(hprices)]

convert_to_hourly(points) ==
    LET keys == SortedDatetimes({TruncateToHour(points[i].datetime) :
                                    i \in 1..Len(points)})
    IN [i \in 1..Len(keys) |-> HourlyAverage(points, keys[i])]

\* hourly_points: the sorted points, averaged per hour when the first of
\* them has a sub-hourly resolution.
HourlyPoints(all_points) ==
    LET sorted == SortByDatetime(all_points)
    IN IF sorted[1].resolution \in {"PT15M", "PT30M"}
       THEN convert_to_hourly(sorted)
       ELSE sorted

\* Mutant of RemoveDuplicates: nothing is skipped.
RemoveDuplicates_KeepAll(points, seen_hours) == points

\* The first point of every hour key is kept, later ones are skipped.
RECURSIVE RemoveDuplicates(_, _)
RemoveDuplicates(points, seen_hours) ==
    IF points = <<>> THEN <<>>
    ELSE LET hour_key == HourKeyOf(Head(points).datetime)
         IN IF hour_key \notin seen_hours
            THEN <<Head(points)>>
                   \o RemoveDuplicates(Tail(points), seen_hours \cup {hour_key})
            ELSE RemoveDuplicates(Tail(points), seen_hours)

\* Mutant of NumberHours: the hour of the day of the point's local time.
NumberHours_HourOfDay(points) ==
    [i \in 1..Len(points) |-> points[i] @@ [hour |-> HourOf(points[i].datetime)]]

\* point['hour'] = i, counting from 1.
NumberHours(points) ==
    [i \in 1..Len(points) |-> points[i] @@ [hour |-> i]]

parse_entsoe_response(zone, doc, target) ==
    LET all_points == CollectPoints(zone, doc, target)
    IN IF all_points = <<>> THEN <<>>
       ELSE NumberHours(RemoveDuplicates(HourlyPoints(all_points), {}))

----------------------------------------------------------------------------
(* find_cheapest_block, validate_price_data, format_price_data             *)

\* Python's None.
None == [is_none |-> TRUE]

PriceValues(points) == [i \in 1..Len(points) |-> points[i].price_eur_mwh]

\* The block sizes format_price_data asks for.
BlockSizes == 1..4

\* prices[j]['price_eur_mwh'] for j in range(i, i + block_hours), with i
\* counted from 1.
BlockPrices(points, i, block_hours) ==
    SubSeq(PriceValues(points), i, i + block_hours - 1)

\* The exact value of sum(...) over the block.
BlockSum(points, i, block_hours) == RSum(BlockPrices(points, i, block_hours))

\* A binary float holds a fraction exactly when its denominator is a power
\* of two (the prices here are far below 2^53).
RECURSIVE IsPowerOfTwo(_)
IsPowerOfTwo(d) == d = 1 \/ (d % 2 = 0 /\ IsPowerOfTwo(d \div 2))

FloatExact(x) == IsPowerOfTwo(x.d)

\* sum(...) adds floats from left to right.  One addend, or addends that
\* are all exact, give the exact sum.  Otherwise the sum carries a rounding
\* error, far smaller than any difference between two distinct sums, which
\* is fixed by the addends and their order (for two addends by the addends
\* alone: float + is commutative, but it is not associative).
RoundsOff(points, i, block_hours) ==
    /\ block_hours >= 2
    /\ \E j \in i..(i + block_hours - 1) :
          ~FloatExact(points[j].price_eur_mwh)

\* What fixes the rounding error of a block's sum.
Addends(points, i, block_hours) ==
    LET block == BlockPrices(points, i, block_hours)
    IN IF block_hours = 2 /\ RLess(block[2], block[1])
       THEN <<block[2], block[1]>>
       ELSE block

\* The sums of the series that carry a rounding error, and the ways their
\* errors can be ranked: 0 for the smaller error, 1 for the larger.
RoundedSums(points) ==
    UNION {{Addends(points, i, k) :
               i \in {j \in 1..(Len(points) - k + 1) : RoundsOff(points, j, k)}} :
           k \in BlockSizes}

SumErrors(points) == [RoundedSums(points) -> {0, 1}]

\* block_sum as the float arithmetic yields it: the exact sum and the rank
\* of its rounding error.
FloatSum(points, i, block_hours, sum_err) ==
    [sum |-> BlockSum(points, i, block_hours),
     err |-> IF RoundsOff(points, i, block_hours)
             THEN sum_err[Addends(points, i, block_hours)]
             ELSE 0]

\* Mutant of IsCheaper: the comparison turned around.
IsCheaper_Reversed(block_sum, best) ==
    \/ best.inf
    \/ RLess(best.sum, block_sum.sum)
    \/ (block_sum.sum = best.sum /\ best.err < block_sum.err)

\* block_sum < best_sum, best_sum starting as float('inf').
IsCheaper(block_sum, best) ==
    \/ best.inf
    \/ RLess(block_sum.sum, best.sum)
    \/ (block_sum.sum = best.sum /\ block_sum.err < best.err)

\* The loop over the start indices, keeping best_sum and best_start_idx.
RECURSIVE ScanBlocks(_, _, _, _, _)
ScanBlocks(points, block_hours, i, best, sum_err) ==
    IF i > Len(points) - block_hours + 1 THEN best
    ELSE LET block_sum == FloatSum(points, i, block_hours, sum_err)
         IN IF IsCheaper(block_sum, best)
            THEN ScanBlocks(points, block_hours, i + 1,
                            [inf |-> FALSE, sum |-> block_sum.sum,
                             err |-> block_sum.err, idx |-> i], sum_err)
            ELSE ScanBlocks(points, block_hours, i + 1, best, sum_err)

\* Mutant of TooShort: <= for <.
TooShort_OrEqual(points, block_hours) == Len(points) <= block_hours

\* len(prices) < block_hours
TooShort(points, block_hours) == Len(points) < block_hours

find_cheapest_block(points, block_hours, sum_err) ==
    IF TooShort(points, block_hours) THEN None
    ELSE LET best == ScanBlocks(points, block_hours, 1,
                                [inf |-> TRUE, sum |-> RInt(0), err |-> 0,
                                 idx |-> 1], sum_err)
             block_prices == SubSeq(points, best.idx,
                                    best.idx + block_hours - 1)
         IN [start_hour |-> block_prices[1].hour,
             end_hour |-> block_prices[Len(block_prices)].hour,
             start_time |-> IsoFormat(block_prices[1].datetime),
             end_time |-> IsoFormat(block_prices[Len(block_prices)].datetime),
             hours |-> block_hours,
             average_price |-> RDivInt(best.sum, block_hours),
             total_price |-> best.sum,
             prices |-> PriceValues(block_prices)]

\* The warnings of validate_price_data.
ValidationIssues(points) ==
    LET price_values == PriceValues(points)
        value_set == {price_values[i] : i \in 1..Len(points)}
        max_price == RMax(value_set)
        min_price == RMin(value_set)
        avg_price == RDivInt(RSum(price_values), Len(points))
    IN (IF RLess(RInt(500), max_price) THEN {"high"} ELSE {})
       \cup (IF RLess(min_price, RInt(0)) THEN {"negative"} ELSE {})
       \cup (IF RLess(RMulInt(avg_price, 10), max_price)
                /\ RLess(RInt(100), max_price) THEN {"spike"} ELSE {})
       \cup (IF Cardinality(value_set) < 5 THEN {"few unique"} ELSE {})
       \cup (IF Len(points) \notin {24, 48, 96} THEN {"count"} ELSE {})

\* Mutant of validate_price_data: any warning rejects the data.
validate_price_data_Strict(points) ==
    IF points = <<>> THEN FALSE
    ELSE ValidationIssues(points) = {}

\* The first component of the pair validate_price_data returns.
validate_price_data(points) ==
    IF points = <<>> THEN FALSE
    ELSE LET value_set == {points[i].price_eur_mwh : i \in 1..Len(points)}
         IN ~(/\ ValidationIssues(points) # {}
              /\ \/ RLess(RInt(1000), RMax(value_set))
                 \/ RLess(RMin(value_set), RInt(-100)))

\* Mutant of FirstWithPrice: the last point with the price, not the first.
FirstWithPrice_Last(points, value) ==
    points[CHOOSE i \in 1..Len(points) :
              /\ points[i].price_eur_mwh = value
              /\ \A j \in (i + 1)..Len(points) : points[j].price_eur_mwh # value]

\* next(p for p in prices if p['price_eur_mwh'] == value)
FirstWithPrice(points, value) ==
    points[CHOOSE i \in 1..Len(points) :
              /\ points[i].price_eur_mwh = value
              /\ \A j \in 1..(i - 1) : points[j].price_eur_mwh # value]

\* One entry of cheapest_blocks for a block of two or more hours.
BlockEntry(block, ties) ==
    IF block = None THEN None
    ELSE [start_hour |-> block.start_hour,
          end_hour |-> block.end_hour,
          start_time |-> block.start_time,
          end_time |-> block.end_time,
          average_price |-> Round(block.average_price, 2, ties),
          hours |-> block.hours]

\* The '1_hour' entry of cheapest_blocks.
HourEntry(block, ties) ==
    IF block = None THEN None
    ELSE [hour |-> block.start_hour,
          time |-> block.start_time,
          price |-> Round(block.average_price, 2, ties)]

\* Mutant of PriceRow: cents per kWh taken as 10 times the price per kWh.
PriceRow_WrongFactor(p, ties) ==
    [hour |-> p.hour,
     datetime |-> IsoFormat(p.datetime),
     price_eur_mwh |-> Round(p.price_eur_mwh, 2, ties),
     price_eur_kwh |-> Round(p.price_eur_kwh, 4, ties),
     price_cent_kwh |-> Round(RMulInt(p.price_eur_kwh, 10), 2, ties)]

\* One element of result['prices'].
PriceRow(p, ties) ==
    [hour |-> p.hour,
     datetime |-> IsoFormat(p.datetime),
     price_eur_mwh |-> Round(p.price_eur_mwh, 2, ties),
     price_eur_kwh |-> Round(p.price_eur_kwh, 4, ties),
     price_cent_kwh |-> Round(RMulInt(p.price_eur_kwh, 100), 2, ties)]

\* Mutant of PriceSpread: the difference taken the other way round.
PriceSpread_Reversed(min_price, max_price) == RSub(min_price, max_price)

\* max_price - min_price
PriceSpread(min_price, max_price) == RSub(max_price, min_price)

format_price_data(points, target, now, ties, sum_err) ==
    IF points = <<>> THEN None
    ELSE
    LET price_values == PriceValues(points)
        value_set == {price_values[i] : i \in 1..Len(points)}
        avg_price == RDivInt(RSum(price_values), Len(points))
        min_price == RMin(value_set)
        max_price == RMax(value_set)
        min_hour_data == FirstWithPrice(points, min_price)
        max_hour_data == FirstWithPrice(points, max_price)
        cheapest_1h == find_cheapest_block(points, 1, sum_err)
        cheapest_2h == find_cheapest_block(points, 2, sum_err)
        cheapest_3h == find_cheapest_block(points, 3, sum_err)
        cheapest_4h == find_cheapest_block(points, 4, sum_err)
    IN [metadata |->
          [source |-> "ENTSO-E Transparency Platform",
           date |-> target,
           retrieved_at |-> now,
           timezone |-> "Europe/Brussels",
           data_points |-> Len(points),
           resolution |-> points[1].resolution,
           statistics |->
             [average_eur_mwh |-> Round(avg_price, 2, ties),
              min_eur_mwh |-> Round(min_price, 2, ties),
              max_eur_mwh |-> Round(max_price, 2, ties),
              min_hour |-> min_hour_data.hour,
              max_hour |-> max_hour_data.hour,
              price_spread |->
                Round(PriceSpread(min_price, max_price), 2, ties)],
           cheapest_blocks |->
             ("1_hour" :> HourEntry(cheapest_1h, ties))
             @@ ("2_hours" :> BlockEntry(cheapest_2h, ties))
             @@ ("3_hours" :> BlockEntry(cheapest_3h, ties))
             @@ ("4_hours" :> BlockEntry(cheapest_4h, ties))],
        prices |-> [i \in 1..Len(points) |-> PriceRow(points[i], ties)]]

----------------------------------------------------------------------------
(* The documents the server may answer with.                               *)

\* Classification of a TimeSeries; parse_entsoe_response reads none of it.
OfficialMeta ==
    [currency_Unit |-> "EUR", price_Measure_Unit |-> "MWH",
     businessType |-> "day-ahead"]
OtherMeta ==
    [currency_Unit |-> "GBP", price_Measure_Unit |-> "MWH",
     businessType |-> "forecast"]
Metas == {OfficialMeta, OtherMeta}

Resolutions == {"PT15M", "PT30M", "PT60M"}

\* price.amount values of the small documents, in EUR/MWh.
SmallPrices == {40, 42}

Point(position, price) ==
    [position |-> position, price |-> price, valid |-> TRUE]

\* A Point element whose position or price.amount is missing or not a number.
BadPoint == [position |-> 0, price |-> RInt(0), valid |-> FALSE]

Period(start, resolution, points) ==
    [start |-> start, startOk |-> TRUE, resolution |-> resolution,
     points |-> points]

TimeSeries(meta, periods) == [meta |-> meta, periods |-> periods]

\* Periods of one to MaxPts points, positions 1, 2, ..., starting at 23:00
\* UTC of the day before the target date or at 00:00 UTC of the target date.
SmallPeriods(target) ==
    {Period(start, res,
            [i \in 1..n |-> Point(i, RInt(ps[i]))]) :
        <<start, res, n, ps>> \in
          {<<st, r, m, q>> \in
              {target * QuartersPerDay - QuartersPerHour,
               target * QuartersPerDay}
              \X Resolutions \X (1..MaxPts)
              \X UNION {[1..k -> SmallPrices] : k \in 1..MaxPts} :
            DOMAIN q = 1..m}}

SmallSeries(target) ==
    {TimeSeries(meta, <<period>>) :
        meta \in Metas, period \in SmallPeriods(target)}

\* A second TimeSeries of a single point.
SecondSeries(target) ==
    {ts \in SmallSeries(target) : Len(ts.periods[1].points) = 1}

SmallDocs(target) ==
    {<<ts>> : ts \in SmallSeries(target)}
    \cup {<<ts1, ts2>> : ts1 \in SmallSeries(target),
                         ts2 \in SecondSeries(target)}

\* The price of position p in pattern i: a varied day, or a day repeating
\* 40, 40, 42.
PatternPrice(i, p) ==
    IF i % 2 = 1 THEN 50 + ((7 * p + i) % 11)
    ELSE IF p % 3 = 0 THEN 42 ELSE 40

\* One official hourly series of 23, 24 or 25 points that starts at local
\* midnight of the target date, in the market zone or at UTC+1.
FullDayDocs(target) ==
    {<<TimeSeries(OfficialMeta,
          <<Period(start, "PT60M",
                   [p \in 1..n |-> Point(p, RInt(PatternPrice(i, p)))])>>)>> :
        start \in {MarketMidnight(target),
                   target * QuartersPerDay - QuartersPerHour},
        n \in 23..25, i \in 1..NumPatterns}

\* Documents with a flaw or an unusual value.
SpecialDocs(target) ==
    LET t0 == target * QuartersPerDay
    IN {<<>>,
        <<TimeSeries(OfficialMeta, <<>>)>>,
        <<TimeSeries(OfficialMeta,
            <<[start |-> 0, startOk |-> FALSE, resolution |-> "PT60M",
               points |-> <<Point(1, RInt(40))>>]>>)>>,
        <<TimeSeries(OfficialMeta, <<Period(t0, "PT60M", <<>>)>>)>>,
        <<TimeSeries(OfficialMeta,
            <<Period(t0, "PT60M",
                <<Point(1, RInt(40)), BadPoint, Point(3, RInt(42))>>)>>)>>,
        <<TimeSeries(OfficialMeta,
            <<Period(t0, "PT60M",
                <<Point(1, RInt(40)), Point(2, RInt(1200))>>)>>)>>,
        <<TimeSeries(OfficialMeta,
            <<Period(t0, "PT60M",
                <<Point(1, RInt(-150)), Point(2, RInt(40))>>)>>)>>,
        <<TimeSeries(OfficialMeta,
            <<Period(t0, "PT60M",
                <<Point(1, Rat(333, 100)), Point(2, Rat(334, 100)),
                  Point(3, Rat(334, 100)), Point(4, Rat(333, 100))>>),
              Period(t0 + QuartersPerDay, "PT60M",
                <<Point(1, RInt(40))>>)>>)>>,
        <<TimeSeries(OfficialMeta,
            <<Period(t0, "PT60M",
                <<Point(1, Rat(1, 10)), Point(2, Rat(2, 10)),
                  Point(3, Rat(3, 10)), Point(4, Rat(1, 10))>>)>>)>>,
        <<TimeSeries(OfficialMeta,
            <<Period(t0, "PT60M",
                <<Point(1, Rat(14, 1000)), Point(2, Rat(6, 1000))>>)>>)>>,
        <<TimeSeries(OfficialMeta,
            <<Period(t0, "PT60M",
                <<Point(1, RInt(-100)), Point(2, RInt(1000))>>)>>)>>}

\* 24 hourly prices from local midnight of the target date: 10 at 03:00,
\* 17 at 02:00 and 18 at 04:00 (15 on average over 02:00-04:00), 40 at every
\* other hour.
DipPrice(p) ==
    CASE p = 4 -> 10 [] p = 3 -> 17 [] p = 5 -> 18 [] OTHER -> 40

DipDocs(target) ==
    {<<TimeSeries(OfficialMeta,
          <<Period(MarketMidnight(target), "PT60M",
                   [p \in 1..24 |-> Point(p, RInt(DipPrice(p)))])>>)>>}

\* Documents with a Point at position 0, and with two Points at the same
\* position of one Period.
MalformedDocs(target) ==
    LET t0 == target * QuartersPerDay
    IN {<<TimeSeries(OfficialMeta,
            <<Period(t0 + QuartersPerHour, "PT60M",
                <<Point(0, RInt(40)), Point(1, RInt(42))>>)>>)>>,
        <<TimeSeries(OfficialMeta,
            <<Period(t0, "PT30M",
                <<Point(1, RInt(40)), Point(1, RInt(42))>>)>>)>>,
        <<TimeSeries(OfficialMeta,
            <<Period(t0, "PT60M",
                <<Point(1, RInt(40)), Point(1, RInt(42))>>)>>)>>}

\* Winter day, spring-forward day, summer day, fall-back day.
TargetDates == {SpringDay - 1, SpringDay, SpringDay + 1, FallDay}

Docs(target) ==
    FullDayDocs(target) \cup SpecialDocs(target) \cup DipDocs(target)
    \cup MalformedDocs(target)
    \cup (IF target = SpringDay - 1 THEN SmallDocs(target) ELSE {})

\* What requests.get answers: a status code, whether the body parses as
\* XML, whether it says 'no matching data found', and the document.
Answer(status_code, xml_ok, no_matching, doc) ==
    [status_code |-> status_code, xml_ok |-> xml_ok,
     no_matching |-> no_matching, doc |-> doc]

Responses(target) ==
    {Answer(code, TRUE, FALSE, <<>>) : code \in {503, 400, 404}}
    \cup {Answer(200, FALSE, FALSE, <<>>), Answer(200, TRUE, TRUE, <<>>)}
    \cup {Answer(200, TRUE, FALSE, doc) : doc \in Docs(target)}

NoResponse == Answer(0, FALSE, FALSE, <<>>)

HostZones == {"UTC", "Europe/Brussels"}

----------------------------------------------------------------------------
(* fetch_prices of scrape_luminus.py has not been called.                  *)

LuminusIdle ==
    /\ lum_pc = "idle"
    /\ contacted = <<>>
    /\ result = None

----------------------------------------------------------------------------
(* fetch_day_ahead_prices, step by step.                                   *)

Init ==
    /\ host_zone \in HostZones
    /\ target_date \in TargetDates
    /\ response = NoResponse
    /\ pc = "request"
    /\ prices = <<>>
    /\ data = None
    /\ main_pc = "idle"
    /\ today = 0
    /\ attempts = <<>>
    /\ collected_data = <<>>
    /\ files = <<>>
    /\ LuminusIdle

\* requests.get and the checks of its answer: any status but 200, a body
\* that is not XML, or 'no matching data found' ends the attempt with None.
RequestPrices ==
    /\ pc = "request"
    /\ \E resp \in Responses(target_date) :
         /\ response' = resp
         /\ pc' = IF resp.status_code # 200 \/ ~resp.xml_ok \/ resp.no_matching
                  THEN "done" ELSE "parse"
    /\ UNCHANGED <<host_zone, target_date, prices, data>>
    /\ UNCHANGED main_vars
    /\ UNCHANGED lum_vars

\* prices = parse_entsoe_response(root, target_date); no prices, no data.
ParseResponse ==
    /\ pc = "parse"
    /\ prices' = parse_entsoe_response(host_zone, response.doc, target_date)
    /\ pc' = IF prices' = <<>> THEN "done" ELSE "validate"
    /\ UNCHANGED <<host_zone, target_date, response, data>>
    /\ UNCHANGED main_vars
    /\ UNCHANGED lum_vars

\* is_valid, validation_msg = validate_price_data(prices)
ValidateData ==
    /\ pc = "validate"
    /\ pc' = IF validate_price_data(prices) THEN "format" ELSE "done"
    /\ UNCHANGED <<host_zone, target_date, response, prices, data>>
    /\ UNCHANGED main_vars
    /\ UNCHANGED lum_vars

\* return format_price_data(prices, target_date)
FormatData ==
    /\ pc = "format"
    /\ \E now \in 0..MaxClock, ties \in TieRules,
          sum_err \in SumErrors(prices) :
         data' = format_price_data(prices, target_date, now, ties, sum_err)
    /\ pc' = "done"
    /\ UNCHANGED <<host_zone, target_date, response, prices>>
    /\ UNCHANGED main_vars
    /\ UNCHANGED lum_vars

Next == RequestPrices \/ ParseResponse \/ ValidateData \/ FormatData

Spec == Init /\ [][Next]_vars

----------------------------------------------------------------------------
(* Vocabulary of the properties.                                           *)

\* parse_entsoe_response has run on the answered document.
ParseDone ==
    /\ pc \in {"validate", "format", "done"}
    /\ response.status_code = 200
    /\ response.xml_ok
    /\ ~response.no_matching

\* fetch_day_ahead_prices has returned a record.
Returned == pc = "done" /\ data # None

\* The points collected from the answered document, and the hourly stream
\* handed to the removal of duplicates.
AllPoints == CollectPoints(host_zone, response.doc, target_date)
HourlyStream == IF AllPoints = <<>> THEN <<>> ELSE HourlyPoints(AllPoints)

\* The candidate prices the hourly stream holds for the hour of a datetime.
Candidates(dt) ==
    {HourlyStream[j].price_eur_mwh :
        j \in {k \in 1..Len(HourlyStream) :
                  HourKeyOf(HourlyStream[k].datetime) = HourKeyOf(dt)}}

\* A document that covers local date d of the market zone and nothing else:
\* one official hourly series from local midnight, one point per hour.
WellFormedCovering(doc, d) ==
    /\ Len(doc) = 1
    /\ Len(doc[1].periods) = 1
    /\ LET period == doc[1].periods[1]
       IN /\ period.startOk
          /\ period.start = MarketMidnight(d)
          /\ period.resolution = "PT60M"
          /\ Len(period.points) = TrueHourCount(d)
          /\ \A i \in 1..Len(period.points) :
                period.points[i].valid /\ period.points[i].position = i

\* Every readable point of the document, with the instant its position
\* stands for.
DecodedPointsOf(doc) ==
    UNION {UNION {{[t |-> PointTime(doc[s].periods[q],
                                   doc[s].periods[q].points[i]),
                    price |-> doc[s].periods[q].points[i].price] :
                      i \in {k \in 1..Len(doc[s].periods[q].points) :
                                doc[s].periods[q].points[k].valid}} :
                 q \in {r \in 1..Len(doc[s].periods) :
                           doc[s].periods[r].startOk}} :
           s \in 1..Len(doc)}

\* A decoded point is among the collected points.
Kept(pt) ==
    \E j \in 1..Len(AllPoints) :
        /\ AllPoints[j].datetime.utc = pt.t
        /\ AllPoints[j].price_eur_mwh = pt.price

----------------------------------------------------------------------------
(* The properties.                                                         *)

\* C1: whenever the hourly stream holds several candidate prices for one
\* local hour, the point kept for that hour carries the minimum of them.
C1_DedupKeepsMinimum ==
    ParseDone =>
      \A i \in 1..Len(prices) :
          prices[i].price_eur_mwh = RMin(Candidates(prices[i].datetime))

\* C2: for a well-formed document covering local date D the pipeline returns
\* a series of exactly true_hour_count(D) points.
C2_LengthIsTrueHourCount ==
    (pc = "done" /\ ParseDone /\ WellFormedCovering(response.doc, target_date))
      => /\ data # None
         /\ Len(data.prices) = TrueHourCount(target_date)

\* C3: fetch_day_ahead_prices never returns a record whose number of points
\* differs from the true hour count of the target date.
C3_WrongLengthRejected ==
    Returned => Len(data.prices) = TrueHourCount(target_date)

\* C4: a decoded point is kept if and only if its instant, converted to the
\* market zone with its daylight-saving rules, falls on the target date.
C4_MarketZoneFilter ==
    ParseDone =>
      \A pt \in DecodedPointsOf(response.doc) :
          Kept(pt) <=> MarketDate(pt.t) = target_date

\* C5: the points parse_entsoe_response returns are in strictly increasing
\* timestamp order and no two of them lie in the same local hour.
C5_OrderedOnePerHour ==
    ParseDone =>
      \A i \in 1..Len(prices) : \A j \in (i + 1)..Len(prices) :
          /\ prices[i].datetime.utc < prices[j].datetime.utc
          /\ HourKeyOf(prices[i].datetime) # HourKeyOf(prices[j].datetime)
          /\ prices[i].datetime.utc \div QuartersPerHour
               # prices[j].datetime.utc \div QuartersPerHour

\* C5 witness: a document of two TimeSeries whose hourly stream held more
\* than one point for some hour, parsed into two or more points.
C5_Witness ==
    /\ ParseDone
    /\ Len(response.doc) = 2
    /\ Len(prices) >= 2
    /\ Len(HourlyStream) > Len(prices)

\* The strict filter of the TimeSeries selector: EUR per MWH, day-ahead.
StrictFilter(ts) ==
    /\ ts.meta.currency_Unit = "EUR"
    /\ ts.meta.price_Measure_Unit = "MWH"
    /\ ts.meta.businessType = "day-ahead"

\* A TimeSeries all of whose periods are hourly.
IsHourly(ts) ==
    \A q \in 1..Len(ts.periods) : ts.periods[q].resolution = "PT60M"

\* What parse_entsoe_response makes of TimeSeries i alone.
ParsedAlone(i) ==
    parse_entsoe_response(host_zone, <<response.doc[i]>>, target_date)

\* The record tells its reader that the selection fell back.
MarkedDegraded == "degraded" \in DOMAIN data.metadata

\* C6: all prices of a returned series come from exactly one TimeSeries of
\* the document: the series is what that TimeSeries alone is parsed into.
C6_OneSeriesOnly ==
    Returned => \E i \in 1..Len(response.doc) : ParsedAlone(i) = prices

\* C7: when some TimeSeries passes the strict filter the series used is one
\* of those, an hourly one when there is one; otherwise the first decodable
\* TimeSeries is used and the record carries a degraded flag.
C7_SelectionRule ==
    Returned =>
      LET strict == {i \in 1..Len(response.doc) :
                        StrictFilter(response.doc[i])}
          hourly == {i \in strict : IsHourly(response.doc[i])}
          preferred == IF hourly # {} THEN hourly ELSE strict
          decodable == {i \in 1..Len(response.doc) : ParsedAlone(i) # <<>>}
      IN IF strict # {}
         THEN \E i \in preferred : ParsedAlone(i) = prices
         ELSE /\ MarkedDegraded
              /\ \E i \in decodable :
                    /\ \A j \in decodable : i <= j
                    /\ ParsedAlone(i) = prices

\* The key of cheapest_blocks for a block of k hours.
BlockKey(k) ==
    CASE k = 1 -> "1_hour" [] k = 2 -> "2_hours"
      [] k = 3 -> "3_hours" [] k = 4 -> "4_hours"

\* The entry of the returned record for blocks of k hours, the index of its
\* first point (hours are numbered 1, 2, ...), and its published average.
Entry(k) == data.metadata.cheapest_blocks[BlockKey(k)]
EntryStart(k) == IF k = 1 THEN Entry(k).hour ELSE Entry(k).start_hour
EntryAverage(k) == IF k = 1 THEN Entry(k).price ELSE Entry(k).average_price

\* The start indices of the runs of k consecutive points.
Runs(k) == 1..(Len(prices) - k + 1)

\* C8 as stated: the published average_price times k is at most the price
\* sum of every other run of k consecutive points.
C8_PublishedAverageBelowEveryRun ==
    Returned =>
      \A k \in BlockSizes :
          Entry(k) # None =>
            \A i \in Runs(k) \ {EntryStart(k)} :
                RLeq(RMulInt(EntryAverage(k), k), BlockSum(prices, i, k))

\* C8 amended: the reported block is a run of k consecutive points whose
\* price sum is at most that of every run of k points; the published
\* average is that sum over k rounded to 2 decimals, so that k times it is
\* within k * 0.005 of the sum.
C8_BlockIsSlidingMinimum ==
    Returned =>
      \A k \in BlockSizes :
          Entry(k) # None =>
            LET best == BlockSum(prices, EntryStart(k), k)
            IN /\ EntryStart(k) \in Runs(k)
               /\ \A i \in Runs(k) : RLeq(best, BlockSum(prices, i, k))
               /\ \E ties \in TieRules :
                     EntryAverage(k) = Round(RDivInt(best, k), 2, ties)
               /\ RLeq(RMulInt(EntryAverage(k), k), RAdd(best, Rat(k, 200)))
               /\ RLeq(RSub(best, Rat(k, 200)), RMulInt(EntryAverage(k), k))

\* C8 witness: a returned record in which k times the published average of
\* a block exceeds the price sum of another run of k points.
C8_Witness ==
    /\ Returned
    /\ \E k \in BlockSizes :
         /\ Entry(k) # None
         /\ \E i \in Runs(k) \ {EntryStart(k)} :
               RLess(BlockSum(prices, i, k), RMulInt(EntryAverage(k), k))

\* C9: when several runs of k consecutive points share the minimal price
\* sum, the block reported is the one with the smallest start index.
C9_EarliestOnTies ==
    Returned =>
      \A k \in BlockSizes :
          Entry(k) # None =>
            \A i \in Runs(k) :
                i < EntryStart(k) =>
                  RLess(BlockSum(prices, EntryStart(k), k),
                        BlockSum(prices, i, k))

\* C10: find_cheapest_block returns None exactly for the block sizes larger
\* than the number of points, and exactly those entries of the returned
\* record are null.
C10_NullOnlyWhenTooShort ==
    Returned =>
      \A k \in BlockSizes :
          /\ \A sum_err \in SumErrors(prices) :
                (find_cheapest_block(prices, k, sum_err) = None)
                  <=> (Len(prices) < k)
          /\ (Entry(k) = None) <=> (Len(data.prices) < k)

\* C10 witness: a record of two points with entries for one and two hours
\* and null for three and four hours.
C10_Witness ==
    /\ Returned
    /\ Len(data.prices) = 2
    /\ Entry(1) # None /\ Entry(2) # None
    /\ Entry(3) = None /\ Entry(4) = None

\* The published prices of the rows of the returned record.
PublishedPrices == {data.prices[i].price_eur_mwh : i \in 1..Len(data.prices)}

Statistics == data.metadata.statistics

\* C11: the price of cheapest_blocks["1_hour"] is the minimum of the
\* points' price_eur_mwh and its hour is statistics.min_hour.
C11_OneHourIsMinimum ==
    Returned =>
      /\ Entry(1).price = RMin(PublishedPrices)
      /\ Entry(1).price = Statistics.min_eur_mwh
      /\ Entry(1).hour = Statistics.min_hour

\* C11 witness: a returned record whose minimum price occurs at several
\* hours, the first of them later than hour 1.
C11_Witness ==
    /\ Returned
    /\ Entry(1).hour > 1
    /\ Cardinality({i \in 1..Len(prices) :
                      prices[i].price_eur_mwh
                        = prices[Entry(1).hour].price_eur_mwh}) >= 2

\* The rows of the returned record.
Rows == 1..Len(data.prices)

\* |x - y| <= eps
Within(x, y, eps) == RLeq(RSub(x, y), eps) /\ RLeq(RSub(y, x), eps)

\* C12 as stated: between the published fields of every row,
\* price_cent_kwh = price_eur_mwh / 10 and
\* price_eur_kwh = price_eur_mwh / 1000.
C12_PublishedFieldsExact ==
    Returned =>
      \A i \in Rows :
          /\ data.prices[i].price_cent_kwh
               = RDivInt(data.prices[i].price_eur_mwh, 10)
          /\ data.prices[i].price_eur_kwh
               = RDivInt(data.prices[i].price_eur_mwh, 1000)

\* C12 amended: price_cent_kwh is the unrounded price / 10 rounded to 2
\* decimals and price_eur_kwh the unrounded price / 1000 rounded to 4
\* decimals, so that between the published fields price_cent_kwh is within
\* 0.0055 of price_eur_mwh / 10 and price_eur_kwh within 0.000055 of
\* price_eur_mwh / 1000.
C12_FieldsAgreeToRounding ==
    Returned =>
      \A i \in Rows :
          LET row == data.prices[i]
              price == prices[i].price_eur_mwh
          IN /\ \E ties \in TieRules :
                   row.price_cent_kwh = Round(RDivInt(price, 10), 2, ties)
             /\ \E ties \in TieRules :
                   row.price_eur_kwh = Round(RDivInt(price, 1000), 4, ties)
             /\ Within(row.price_cent_kwh, RDivInt(row.price_eur_mwh, 10),
                       Rat(55, 10000))
             /\ Within(row.price_eur_kwh, RDivInt(row.price_eur_mwh, 1000),
                       Rat(55, 1000000))

\* C12 witness: a returned row whose published price_cent_kwh differs from
\* its published price_eur_mwh / 10.
C12_Witness ==
    /\ Returned
    /\ \E i \in Rows :
          data.prices[i].price_cent_kwh
            # RDivInt(data.prices[i].price_eur_mwh, 10)

\* The records a run of the pipeline on a host in the given zone, at the
\* given clock time, can return for the answered document and target date.
RunRecords(zone, now) ==
    LET points == parse_entsoe_response(zone, response.doc, target_date)
    IN IF validate_price_data(points)
       THEN {format_price_data(points, target_date, now, ties, sum_err) :
                ties \in TieRules, sum_err \in SumErrors(points)}
       ELSE {None}

\* C13: a second run of the pipeline on the same document and target date,
\* on whatever host and at whatever time, returns the record of the first.
C13_RerunGivesSameRecord ==
    Returned =>
      \A zone \in HostZones : \A now \in 0..MaxClock :
          data \in RunRecords(zone, now)

\* The TimeSeries of a document in the opposite order.
Reversed(doc) == [i \in 1..Len(doc) |-> doc[Len(doc) + 1 - i]]

\* The price a parsed series holds for each hour.
HourPrices(points) ==
    {<<points[i].datetime, points[i].price_eur_mwh>> : i \in 1..Len(points)}

\* C14: the document with its TimeSeries in another order is parsed into
\* the same price for every local hour.
C14_OrderIndependent ==
    ParseDone =>
      HourPrices(parse_entsoe_response(host_zone, Reversed(response.doc),
                                       target_date))
        = HourPrices(prices)

----------------------------------------------------------------------------
(* main, save_combined_data, save_data                                     *)

\* datetime.weekday(): Monday is 0; day 0 is a Friday.
Weekday(d) == (d + 4) % 7

\* The dates main may take for today: one of each weekday.
Todays == 2..8

\* Mutant of fetch_day_ahead_prices: the outcome of the validation is not
\* looked at.
fetch_day_ahead_prices_Unvalidated(zone, resp, target) ==
    IF resp.status_code # 200 \/ ~resp.xml_ok \/ resp.no_matching
    THEN {None}
    ELSE LET points == parse_entsoe_response(zone, resp.doc, target)
         IN IF points = <<>> THEN {None}
            ELSE {format_price_data(points, target, now, ties, sum_err) :
                     now \in 0..MaxClock, ties \in TieRules,
                     sum_err \in SumErrors(points)}

\* What fetch_day_ahead_prices can return for an answer of the platform:
\* None for any status but 200, a body that is not XML, 'no matching data
\* found', no prices, or prices that fail the validation.
fetch_day_ahead_prices(zone, resp, target) ==
    IF resp.status_code # 200 \/ ~resp.xml_ok \/ resp.no_matching
    THEN {None}
    ELSE LET points == parse_entsoe_response(zone, resp.doc, target)
         IN IF points = <<>> THEN {None}
            ELSE IF ~validate_price_data(points) THEN {None}
            ELSE {format_price_data(points, target, now, ties, sum_err) :
                     now \in 0..MaxClock, ties \in TieRules,
                     sum_err \in SumErrors(points)}

\* The answers main's requests may get: an accepted document of two hours,
\* and one answer for each way an attempt fails.
GoodDoc(target) ==
    <<TimeSeries(OfficialMeta,
        <<Period(MarketMidnight(target), "PT60M",
            <<Point(1, RInt(40)), Point(2, RInt(42))>>)>>)>>

ExtremeDoc(target) ==
    <<TimeSeries(OfficialMeta,
        <<Period(MarketMidnight(target), "PT60M",
            <<Point(1, RInt(40)), Point(2, RInt(1200))>>)>>)>>

FailingAnswers(target) ==
    {Answer(503, TRUE, FALSE, <<>>), Answer(200, FALSE, FALSE, <<>>),
     Answer(200, TRUE, TRUE, <<>>), Answer(200, TRUE, FALSE, <<>>),
     Answer(200, TRUE, FALSE, ExtremeDoc(target))}

MainAnswers(target) ==
    FailingAnswers(target) \cup {Answer(200, TRUE, FALSE, GoodDoc(target))}

\* The names of the files: latest.json, day_ahead_prices_<date>.json and
\* day_ahead_prices_<date>.csv.
LatestJson == [name |-> "latest.json", date |-> 0]
DayJson(d) == [name |-> "day_ahead_prices.json", date |-> d]
DayCsv(d) == [name |-> "day_ahead_prices.csv", date |-> d]

\* open(name, 'w') and the dump: the file holds the content, the other
\* files stay as they are.
WriteFile(fs, name, content) ==
    [n \in DOMAIN fs \cup {name} |-> IF n = name THEN content ELSE fs[n]]

\* What is in the working directory when main starts: nothing, or files of
\* an earlier run for every date main may ask for.
OldContent == [old |-> TRUE]

OldFiles(d) ==
    [n \in {LatestJson} \cup {DayJson(e) : e \in (d - 2)..(d + 2)}
                        \cup {DayCsv(e) : e \in (d - 2)..(d + 2)}
       |-> OldContent]

\* The rows of the CSV file of a record.
CsvRows(record) ==
    [csv |-> [i \in 1..Len(record.prices) |->
                [datetime |-> record.prices[i].datetime,
                 hour |-> record.prices[i].hour,
                 price_eur_mwh |-> record.prices[i].price_eur_mwh,
                 price_eur_kwh |-> record.prices[i].price_eur_kwh,
                 price_cent_kwh |-> record.prices[i].price_cent_kwh]]]

\* The two files save_combined_data and save_data write for one day.
SaveDay(fs, record, d) ==
    WriteFile(WriteFile(fs, DayJson(d), [json |-> record]),
              DayCsv(d), CsvRows(record))

\* The per-day files of the collected days, in the order of the dict.
RECURSIVE SaveDays(_, _, _)
SaveDays(fs, collected, keys) ==
    IF keys = <<>> THEN fs
    ELSE SaveDays(SaveDay(fs, collected[keys[1]].data,
                          collected[keys[1]].date),
                  collected, Tail(keys))

\* The keys of collected_data in insertion order.
DayKeys(collected) ==
    (IF "today" \in DOMAIN collected THEN <<"today">> ELSE <<>>)
    \o (IF "tomorrow" \in DOMAIN collected THEN <<"tomorrow">> ELSE <<>>)

save_combined_data(fs, collected, primary_date, now) ==
    LET combined_data ==
          [metadata |->
             [source |-> "ENTSO-E Transparency Platform",
              retrieved_at |-> now,
              timezone |-> "Europe/Brussels",
              available_days |-> Cardinality(DOMAIN collected),
              primary_date |-> primary_date],
           days |-> [k \in DOMAIN collected |-> collected[k].data]]
    IN SaveDays(WriteFile(fs, LatestJson, [json |-> combined_data]),
                collected, DayKeys(collected))

save_data(fs, record, target) ==
    WriteFile(SaveDay(fs, record, target), LatestJson, [json |-> record])

\* if today_data: / if tomorrow_data: / if data:
Found(record) == record # None

\* One call of fetch_day_ahead_prices made by main: the date asked for, the
\* answer of the platform, and what the call returned.
Attempt(d, resp, record) == [date |-> d, resp |-> resp, data |-> record]

\* fallback_dates with their labels.
FallbackLabels == <<"gisteren", "eergisteren", "overmorgen">>

\* Mutant of FallbackDate: the day after tomorrow replaced by three days ago.
FallbackDate_PastOnly(label) ==
    CASE label = "gisteren" -> today - 1
      [] label = "eergisteren" -> today - 2
      [] label = "overmorgen" -> today - 3

FallbackDate(label) ==
    CASE label = "gisteren" -> today - 1
      [] label = "eergisteren" -> today - 2
      [] label = "overmorgen" -> today + 2

\* Where main goes when the loop is done with a date.
AfterFallback(label) ==
    CASE label = "gisteren" -> "eergisteren"
      [] label = "eergisteren" -> "overmorgen"
      [] label = "overmorgen" -> "exit"

MainInit ==
    /\ host_zone \in HostZones
    /\ today \in Todays
    /\ main_pc = "today"
    /\ attempts = <<>>
    /\ collected_data = <<>>
    /\ files \in {<<>>, OldFiles(today)}
    /\ LuminusIdle
    /\ target_date = 0
    /\ response = NoResponse
    /\ pc = "idle"
    /\ prices = <<>>
    /\ data = None

\* today_data = fetch_day_ahead_prices(today)
FetchToday ==
    /\ main_pc = "today"
    /\ \E resp \in MainAnswers(today) :
         \E today_data \in fetch_day_ahead_prices(host_zone, resp, today) :
            /\ attempts' = Append(attempts, Attempt(today, resp, today_data))
            /\ collected_data' =
                 IF Found(today_data)
                 THEN "today" :> [data |-> today_data, date |-> today,
                                  label |-> "Vandaag"]
                 ELSE collected_data
    /\ main_pc' = "tomorrow"
    /\ UNCHANGED <<host_zone, today, files, target_date, response, pc,
                   prices, data>>
    /\ UNCHANGED lum_vars

\* tomorrow_data = fetch_day_ahead_prices(tomorrow)
FetchTomorrow ==
    /\ main_pc = "tomorrow"
    /\ \E resp \in MainAnswers(today + 1) :
         \E tomorrow_data \in
               fetch_day_ahead_prices(host_zone, resp, today + 1) :
            /\ attempts' = Append(attempts,
                                   Attempt(today + 1, resp, tomorrow_data))
            /\ collected_data' =
                 IF Found(tomorrow_data)
                 THEN collected_data
                      @@ ("tomorrow" :> [data |-> tomorrow_data,
                                         date |-> today + 1,
                                         label |-> "Morgen"])
                 ELSE collected_data
    /\ main_pc' = IF collected_data' # <<>> THEN "save" ELSE "gisteren"
    /\ UNCHANGED <<host_zone, today, files, target_date, response, pc,
                   prices, data>>
    /\ UNCHANGED lum_vars

\* combined_success = save_combined_data(collected_data, today); return
SaveCombined ==
    /\ main_pc = "save"
    /\ \E now \in 0..MaxClock :
         files' = save_combined_data(files, collected_data, today, now)
    /\ main_pc' = "return"
    /\ UNCHANGED <<host_zone, today, attempts, collected_data, target_date,
                   response, pc, prices, data>>
    /\ UNCHANGED lum_vars

\* if target_date.weekday() >= 5: continue
SkipWeekend ==
    /\ main_pc \in {FallbackLabels[i] : i \in 1..Len(FallbackLabels)}
    /\ Weekday(FallbackDate(main_pc)) >= 5
    /\ main_pc' = AfterFallback(main_pc)
    /\ UNCHANGED <<host_zone, today, attempts, collected_data, files,
                   target_date, response, pc, prices, data>>
    /\ UNCHANGED lum_vars

\* data = fetch_day_ahead_prices(target_date); if data: save_data, return
FetchFallback ==
    /\ main_pc \in {FallbackLabels[i] : i \in 1..Len(FallbackLabels)}
    /\ Weekday(FallbackDate(main_pc)) < 5
    /\ LET d == FallbackDate(main_pc)
       IN \E resp \in MainAnswers(d) :
            \E record \in fetch_day_ahead_prices(host_zone, resp, d) :
               /\ attempts' = Append(attempts, Attempt(d, resp, record))
               /\ files' = IF Found(record) THEN save_data(files, record, d)
                           ELSE files
               /\ main_pc' = IF Found(record) THEN "return"
                             ELSE AfterFallback(main_pc)
    /\ UNCHANGED <<host_zone, today, collected_data, target_date, response,
                   pc, prices, data>>
    /\ UNCHANGED lum_vars

MainNext ==
    FetchToday \/ FetchTomorrow \/ SaveCombined \/ SkipWeekend
    \/ FetchFallback

MainSpec == MainInit /\ [][MainNext]_vars

----------------------------------------------------------------------------
(* The properties of main.                                                 *)

\* C15: main attempts today's date first; every later attempt follows a
\* failed one and asks for the calendar day before it, so that nothing is
\* fetched after a success.
C15_FallbackToPreviousDays ==
    \A i \in 1..Len(attempts) :
        IF i = 1 THEN attempts[i].date = today
        ELSE /\ ~Found(attempts[i - 1].data)
             /\ attempts[i].date = attempts[i - 1].date - 1

\* The ways an attempt fails: any status but 200, a body that is not XML,
\* 'no matching data found', no points, or points that fail the validation.
Fails(zone, resp, target) ==
    \/ resp.status_code # 200
    \/ ~resp.xml_ok
    \/ resp.no_matching
    \/ parse_entsoe_response(zone, resp.doc, target) = <<>>
    \/ ~validate_price_data(parse_entsoe_response(zone, resp.doc, target))

\* A file is as main found it: absent, or with the content of the earlier
\* run.
Untouched(name) == name \in DOMAIN files => files[name] = OldContent

\* The dates whose records latest.json holds.
LatestDates ==
    IF Untouched(LatestJson) THEN {}
    ELSE LET content == files[LatestJson].json
         IN IF "days" \in DOMAIN content
            THEN {content.days[k].metadata.date : k \in DOMAIN content.days}
            ELSE {content.metadata.date}

\* The calls of main that returned a record.
Successes == {i \in 1..Len(attempts) : attempts[i].data # None}

IsoHour(iso) == (iso.wall % QuartersPerDay) \div QuartersPerHour

\* C17: every hour the record reports is the local hour of the day of the
\* point it belongs to: in the rows, in the cheapest blocks and in the
\* statistics.
C17_HourIsLocalHourOfDay ==
    Returned =>
      /\ \A r \in Rows : data.prices[r].hour = IsoHour(data.prices[r].datetime)
      /\ Entry(1).hour = IsoHour(Entry(1).time)
      /\ \A k \in 2..4 :
            Entry(k) # None =>
               /\ Entry(k).start_hour = IsoHour(Entry(k).start_time)
               /\ Entry(k).end_hour = IsoHour(Entry(k).end_time)
      /\ \E r \in Rows :
            /\ data.prices[r].price_eur_mwh = Statistics.min_eur_mwh
            /\ Statistics.min_hour = IsoHour(data.prices[r].datetime)
      /\ \E r \in Rows :
            /\ data.prices[r].price_eur_mwh = Statistics.max_eur_mwh
            /\ Statistics.max_hour = IsoHour(data.prices[r].datetime)

\* The rows whose published price is a given value.
RowsWithPrice(value) == {r \in Rows : data.prices[r].price_eur_mwh = value}

\* The extremes of the statistics are those of the published prices, and
\* min_hour and max_hour are hours of rows that attain them.
ExtremesPublished ==
    /\ Statistics.min_eur_mwh = RMin(PublishedPrices)
    /\ Statistics.max_eur_mwh = RMax(PublishedPrices)
    /\ \E r \in RowsWithPrice(Statistics.min_eur_mwh) :
          data.prices[r].hour = Statistics.min_hour
    /\ \E r \in RowsWithPrice(Statistics.max_eur_mwh) :
          data.prices[r].hour = Statistics.max_hour

\* max_eur_mwh - min_eur_mwh, as published.
PublishedSpread == RSub(Statistics.max_eur_mwh, Statistics.min_eur_mwh)

\* C18 as stated: the extremes are those of the published prices, at the
\* published hours, and price_spread is the difference of the published
\* extremes.
C18_SpreadOfPublishedExtremes ==
    Returned =>
      /\ ExtremesPublished
      /\ Statistics.price_spread = PublishedSpread

\* C18 amended: the extremes are those of the published prices, at the
\* published hours; price_spread is the difference of the unrounded
\* extremes, rounded to 2 decimals, and lies within 0.01 of the difference
\* of the published extremes.
C18_SpreadOfUnroundedExtremes ==
    Returned =>
      LET value_set == {prices[i].price_eur_mwh : i \in 1..Len(prices)}
          spread == RSub(RMax(value_set), RMin(value_set))
      IN /\ ExtremesPublished
         /\ \E ties \in TieRules : Statistics.price_spread = Round(spread, 2, ties)
         /\ Within(Statistics.price_spread, PublishedSpread, Rat(1, 100))

\* C18 witness: a returned record whose maximum comes after its minimum and
\* whose price_spread is not the difference of the published extremes.
C18_Witness ==
    /\ Returned
    /\ Statistics.min_hour > Statistics.max_hour
    /\ Statistics.price_spread # PublishedSpread

\* The length of a resolution of 15, 30 or 60 minutes, in quarters of an hour.
QuartersOf(resolution) ==
    CASE resolution = "PT15M" -> 1
      [] resolution = "PT30M" -> 2
      [] resolution = "PT60M" -> 4

\* A collected point is the Point at position p of a Period of the answered
\* document, with the Period's start S and resolution R, and its instant is t.
DecodedFrom(point, period, pt, t) ==
    /\ period.startOk
    /\ pt.valid
    /\ point.period_start = period.start
    /\ point.resolution = period.resolution
    /\ point.position = pt.position
    /\ point.price_eur_mwh = pt.price
    /\ point.datetime.utc = t
    /\ IsoFormat(point.datetime).wall - IsoFormat(point.datetime).off = t

\* C19: every collected point comes from a Point at position p of a Period
\* with start S and resolution R, and its instant is S + R * (p - 1); the
\* local time it is published with is that same instant.
C19_PointInstant ==
    ParseDone =>
      LET all_points == AllPoints
      IN \A j \in 1..Len(all_points) :
            \E s \in 1..Len(response.doc) :
               \E q \in 1..Len(response.doc[s].periods) :
                  LET period == response.doc[s].periods[q]
                  IN \E i \in 1..Len(period.points) :
                        DecodedFrom(all_points[j], period, period.points[i],
                                    period.start
                                      + QuartersOf(period.resolution)
                                          * (period.points[i].position - 1))

\* C19 witness: on a host whose local time is ahead of UTC, a point at a
\* position after the first is collected from a Period of 15 minutes'
\* resolution.
C19_Witness ==
    /\ ParseDone
    /\ host_zone = "Europe/Brussels"
    /\ \E j \in 1..Len(AllPoints) :
          /\ AllPoints[j].position > 1
          /\ AllPoints[j].resolution = "PT15M"
          /\ AllPoints[j].datetime.off > 0

\* A Point is malformed when its position is 0 or less, or is that of an
\* earlier Point of the same Period.
Malformed(points, i) ==
    \/ points[i].position <= 0
    \/ \E k \in 1..(i - 1) :
          points[k].valid /\ points[k].position = points[i].position

\* The document with its malformed Points made unreadable, which the loop
\* over the Points passes over.
WithoutMalformed(doc) ==
    [s \in 1..Len(doc) |->
       [doc[s] EXCEPT !.periods =
          [q \in 1..Len(doc[s].periods) |->
             [doc[s].periods[q] EXCEPT !.points =
                [i \in 1..Len(doc[s].periods[q].points) |->
                   IF Malformed(doc[s].periods[q].points, i)
                   THEN BadPoint
                   ELSE doc[s].periods[q].points[i]]]]]]

\* C20: a Point whose position is 0 or less, or repeats the position of an
\* earlier Point of its Period, contributes nothing: the resulting series is
\* that of the document without these Points.
C20_MalformedPointsExcluded ==
    ParseDone =>
      prices = parse_entsoe_response(host_zone,
                                     WithoutMalformed(response.doc),
                                     target_date)

\* A Period the loop over the Points is entered for.
Processed(period) ==
    /\ period.startOk
    /\ period.points # <<>>
    /\ CoversTargetDate(host_zone, period, target_date)

\* A Period with a Point that does not parse.
HasBadPoint(period) == \E i \in 1..Len(period.points) : ~period.points[i].valid

\* The point with the given instant and price is collected, and the series
\* returned holds a price for its hour.
InOutput(all_points, t, position, price) ==
    /\ \E j \in 1..Len(all_points) :
          /\ all_points[j].datetime.utc = t
          /\ all_points[j].position = position
          /\ all_points[j].price_eur_mwh = price
    /\ \E j \in 1..Len(prices) :
          prices[j].datetime.utc \div QuartersPerHour = t \div QuartersPerHour

\* C21: in a Period that holds a Point which does not parse, every Point
\* that parses, before or after it, is collected with the timestamp of its
\* own position when that timestamp lies on the target date.
C21_BadPointDoesNotAbortPeriod ==
    ParseDone =>
      LET all_points == AllPoints
      IN \A s \in 1..Len(response.doc) :
            \A q \in 1..Len(response.doc[s].periods) :
               LET period == response.doc[s].periods[q]
               IN (Processed(period) /\ HasBadPoint(period)) =>
                    \A i \in 1..Len(period.points) :
                       LET pt == period.points[i]
                           t == period.start
                                  + QuartersOf(period.resolution)
                                      * (pt.position - 1)
                       IN (pt.valid /\ OnTargetDate(host_zone, t, target_date))
                            => InOutput(all_points, t, pt.position, pt.price)

\* C21 witness: a Period whose second Point does not parse, with the Points
\* before and after it both in the series returned.
C21_Witness ==
    /\ ParseDone
    /\ Len(prices) = 2
    /\ \E s \in 1..Len(response.doc) :
          \E q \in 1..Len(response.doc[s].periods) :
             LET period == response.doc[s].periods[q]
             IN /\ Processed(period)
                /\ Len(period.points) = 3
                /\ period.points[1].valid
                /\ ~period.points[2].valid
                /\ period.points[3].valid

\* The hour an aware datetime lies in. The offsets of the model are whole
\* hours, so the hours of local time are those of UTC.
HourIndex(dt) == dt.utc \div QuartersPerHour

\* The collected points that lie in hour h, and their prices.
MembersOf(all_points, h) ==
    SelectSeq(all_points, LAMBDA p : HourIndex(p.datetime) = h)

MemberPrices(all_points, h) ==
    LET members == MembersOf(all_points, h)
    IN [k \in 1..Len(members) |-> members[k].price_eur_mwh]

\* Every collected point has a resolution of 15 or 30 minutes.
AllSubHourly(all_points) ==
    /\ all_points # <<>>
    /\ \A i \in 1..Len(all_points) :
          all_points[i].resolution \in {"PT15M", "PT30M"}

\* C22: when every collected point is of 15 or 30 minutes' resolution, the
\* hourly stream holds exactly one point for every local hour with a member
\* and none for any other hour, and the price of that point times the number
\* of members is the sum of the members' prices.
C22_OnePointPerHourWithMean ==
    ParseDone =>
      LET all_points == AllPoints
          hourly == HourlyStream
      IN AllSubHourly(all_points) =>
           /\ \A i \in 1..Len(all_points) :
                 Cardinality({j \in 1..Len(hourly) :
                                 HourIndex(hourly[j].datetime)
                                   = HourIndex(all_points[i].datetime)}) = 1
           /\ \A j \in 1..Len(hourly) :
                 LET member_prices ==
                        MemberPrices(all_points, HourIndex(hourly[j].datetime))
                 IN /\ member_prices # <<>>
                    /\ RMulInt(hourly[j].price_eur_mwh, Len(member_prices))
                         = RSum(member_prices)
                    /\ hourly[j].price_eur_kwh
                         = RDivInt(hourly[j].price_eur_mwh, 1000)

\* C22 witness: points of 15 or 30 minutes' resolution in two hours, one of
\* which has members of different prices.
C22_Witness ==
    /\ ParseDone
    /\ AllSubHourly(AllPoints)
    /\ Len(HourlyStream) = 2
    /\ \E j \in 1..Len(HourlyStream) :
          LET member_prices ==
                 MemberPrices(AllPoints, HourIndex(HourlyStream[j].datetime))
          IN \E a, b \in 1..Len(member_prices) :
                member_prices[a] # member_prices[b]

\* The local time of an aware datetime is a whole hour.
OnWholeHour(dt) == (dt.utc + dt.off) % QuartersPerHour = 0

\* C23: every point of the stream handed to the removal of duplicates lies
\* on a whole hour, and when every collected point is of 60 minutes'
\* resolution the stream is the sorted collected points themselves.
C23_StreamIsHourly ==
    ParseDone =>
      LET all_points == AllPoints
          hourly == HourlyStream
      IN /\ \A j \in 1..Len(hourly) : OnWholeHour(hourly[j].datetime)
         /\ (\A i \in 1..Len(all_points) : all_points[i].resolution = "PT60M")
               => hourly = SortByDatetime(all_points)

\* An hour holds fewer members than 60 minutes / resolution.
PartialHour(all_points, h) ==
    LET members == MembersOf(all_points, h)
    IN Len(members) < QuartersPerHour \div QuartersOf(members[1].resolution)

\* The hourly points that convert_to_hourly makes of hours holding all their
\* members, over the single Periods of 15 or 30 minutes' resolution.
FullHourPoints ==
    UNION {LET other == CollectPeriod(host_zone, period, target_date)
           IN IF AllSubHourly(other)
              THEN {HourlyPoints(other)[k] :
                      k \in {n \in 1..Len(HourlyPoints(other)) :
                               ~PartialHour(other,
                                   HourIndex(HourlyPoints(other)[n].datetime))}}
              ELSE {} :
           period \in SmallPeriods(target_date)}

\* C24: the hourly point of an hour with fewer members than 60 minutes /
\* resolution is marked: it is told apart from the hourly point of an hour
\* that holds all its members, so it equals none of those.
C24_PartialHourIsMarked ==
    ParseDone =>
      LET all_points == AllPoints
          hourly == HourlyStream
          full == FullHourPoints
      IN AllSubHourly(all_points) =>
           \A j \in 1..Len(hourly) :
              PartialHour(all_points, HourIndex(hourly[j].datetime))
                 => hourly[j] \notin full

\* timezone(timedelta(hours=1)): the fixed offset the target date carries.
BelgianOffset == QuartersPerHour

\* periodStart and periodEnd of the request: midnight of the target date at
\* the fixed offset, as a UTC instant, and one day later.
PeriodStart(target) == target * QuartersPerDay - BelgianOffset
PeriodEnd(target) == PeriodStart(target) + QuartersPerDay

\* The instants of the two days around the target date, by the quarter hour.
NearbyInstants(target) ==
    ((target - 1) * QuartersPerDay)..((target + 2) * QuartersPerDay)

\* C25: once the request is sent, every instant of the target date in the
\* market zone lies in the window from periodStart up to periodEnd.
C25_WindowCoversLocalDay ==
    pc # "request" =>
      \A t \in NearbyInstants(target_date) :
          MarketDate(t) = target_date =>
             /\ PeriodStart(target_date) <= t
             /\ t < PeriodEnd(target_date)

-----------------------------------------------------------------------------
(* The lookup of elements in the XML tree.                                 *)

\* The tag of an element: its namespace URI ("" for none) and its local
\* name, written as a prefix ("" or some letters) followed by a base name.
Tag(ns, prefix, base) == [ns |-> ns, prefix |-> prefix, base |-> base]

\* The local names parse_entsoe_response looks for.
LookedUp ==
    {"TimeSeries", "Period", "start", "resolution", "Point", "position",
     "price.amount"}

Namespaces == {"", "urn:a", "urn:b"}

\* A tree of one TimeSeries with one Period of two Points of 30 minutes,
\* every element with the root's namespace and its proper name, except the
\* elements of one name, which carry the tag given.
Tree(root_ns, target, name, tag) ==
    LET T(base) == IF base = name THEN tag ELSE Tag(root_ns, "", base)
        PointElem(position, price) ==
            [tag |-> T("Point"),
             children |-> <<[tag |-> T("position"), value |-> RInt(position)],
                            [tag |-> T("price.amount"), value |-> price]>>]
    IN [root_ns |-> root_ns,
        series |->
          <<[tag |-> T("TimeSeries"),
             periods |->
               <<[tag |-> T("Period"),
                  start |-> [tag |-> T("start"),
                             value |-> target * QuartersPerDay],
                  resolution |-> [tag |-> T("resolution"), value |-> "PT30M"],
                  points |-> <<PointElem(1, RInt(40)),
                               PointElem(2, RInt(42))>>]>>]>>]

Trees(target) ==
    {Tree(root_ns, target, name, Tag(ns, prefix, name)) :
        root_ns \in {"", "urn:a"}, name \in LookedUp,
        ns \in Namespaces, prefix \in {"", "x"}}

\* findall('.//ns:NAME', ns): the root's namespace and the very name.
NsFind(root_ns, elem, name) ==
    /\ elem.tag.ns = root_ns
    /\ elem.tag.prefix = ""
    /\ elem.tag.base = name

\* elem.tag.endswith(NAME)
EndsWith(elem, name) == elem.tag.base = name

\* The lookup of TimeSeries, Period and Point: by namespace when the root
\* has one, by the end of the tag otherwise.
FindAll(root_ns, elems, name) ==
    SelectSeq(elems, LAMBDA e : IF root_ns # "" THEN NsFind(root_ns, e, name)
                                ELSE EndsWith(e, name))

\* The lookup of start and resolution: by namespace first, then by the end
\* of the tag.
FindOne(root_ns, elem, name) ==
    \/ (root_ns # "" /\ NsFind(root_ns, elem, name))
    \/ EndsWith(elem, name)

\* The loop over the children of a Point: the last child whose tag ends
\* with the name.
LastChild(children, name) ==
    LET found == {i \in 1..Len(children) : EndsWith(children[i], name)}
    IN IF found = {} THEN None
       ELSE children[CHOOSE i \in found : \A j \in found : j <= i]

\* What parse_entsoe_response reads from the tree: the TimeSeries, Periods
\* and Points it finds, a Point without position or price.amount being
\* passed over, a Period without start being left out, a Period without
\* resolution being taken as PT60M.
ReadPoint(elem) ==
    LET position_elem == LastChild(elem.children, "position")
        price_elem == LastChild(elem.children, "price.amount")
    IN IF position_elem = None \/ price_elem = None THEN BadPoint
       ELSE Point(position_elem.value.n, price_elem.value)

ReadPeriod(root_ns, elem) ==
    LET points == FindAll(root_ns, elem.points, "Point")
    IN [start |-> IF FindOne(root_ns, elem.start, "start")
                  THEN elem.start.value ELSE 0,
        startOk |-> FindOne(root_ns, elem.start, "start"),
        resolution |-> IF FindOne(root_ns, elem.resolution, "resolution")
                       THEN elem.resolution.value ELSE "PT60M",
        points |-> [i \in 1..Len(points) |-> ReadPoint(points[i])]]

ReadTree(tree) ==
    LET series == FindAll(tree.root_ns, tree.series, "TimeSeries")
    IN [s \in 1..Len(series) |->
          LET periods == FindAll(tree.root_ns, series[s].periods, "Period")
          IN TimeSeries(OfficialMeta,
                        [q \in 1..Len(periods) |->
                            ReadPeriod(tree.root_ns, periods[q])])]

\* The same reading with every lookup by local name alone: the namespace is
\* not looked at and the local name is the very name.
LocalNameIs(elem, name) == elem.tag.prefix = "" /\ elem.tag.base = name

ByLocalName(tree) ==
    LET Keep(elems, name) == SelectSeq(elems, LAMBDA e : LocalNameIs(e, name))
        Child(children, name) ==
            IF Keep(children, name) = <<>> THEN None
            ELSE Keep(children, name)[1]
        APoint(elem) ==
            IF \/ Child(elem.children, "position") = None
               \/ Child(elem.children, "price.amount") = None
            THEN BadPoint
            ELSE Point(Child(elem.children, "position").value.n,
                       Child(elem.children, "price.amount").value)
        APeriod(elem) ==
            [start |-> IF LocalNameIs(elem.start, "start")
                       THEN elem.start.value ELSE 0,
             startOk |-> LocalNameIs(elem.start, "start"),
             resolution |-> IF LocalNameIs(elem.resolution, "resolution")
                            THEN elem.resolution.value ELSE "PT60M",
             points |-> [i \in 1..Len(Keep(elem.points, "Point")) |->
                            APoint(Keep(elem.points, "Point")[i])]]
    IN [s \in 1..Len(Keep(tree.series, "TimeSeries")) |->
          TimeSeries(OfficialMeta,
             [q \in 1..Len(Keep(Keep(tree.series, "TimeSeries")[s].periods,
                                "Period")) |->
                 APeriod(Keep(Keep(tree.series, "TimeSeries")[s].periods,
                              "Period")[q])])]

\* fetch_day_ahead_prices on an answer whose body is one of the trees.
LookupInit ==
    /\ host_zone \in HostZones
    /\ target_date \in TargetDates
    /\ response = NoResponse
    /\ pc = "request"
    /\ prices = <<>>
    /\ data = None
    /\ main_pc = "idle"
    /\ today = 0
    /\ attempts = <<>>
    /\ collected_data = <<>>
    /\ files = <<>>
    /\ LuminusIdle

\* requests.get answers 200 with an XML body; ET.fromstring gives its tree.
RequestTree ==
    /\ pc = "request"
    /\ \E tree \in Trees(target_date) :
          response' = [content |-> tree]
                        @@ Answer(200, TRUE, FALSE, ReadTree(tree))
    /\ pc' = "parse"
    /\ UNCHANGED <<host_zone, target_date, prices, data>>
    /\ UNCHANGED main_vars
    /\ UNCHANGED lum_vars

LookupNext == RequestTree \/ ParseResponse \/ ValidateData \/ FormatData

LookupSpec == LookupInit /\ [][LookupNext]_vars

\* C26: the TimeSeries, Periods, starts, resolutions, Points, positions and
\* prices that parse_entsoe_response reads from a tree are those of the
\* elements with these local names, whatever their namespace, and of no
\* element whose local name only ends with one of them.
C26_LookupByLocalName ==
    pc # "request" => response.doc = ByLocalName(response.content)

\* The three grounds for rejection: no prices, a maximum above 1000, a
\* minimum below -100.
Rejectable(points) ==
    \/ points = <<>>
    \/ \E i \in 1..Len(points) : RLess(RInt(1000), points[i].price_eur_mwh)
    \/ \E i \in 1..Len(points) : RLess(points[i].price_eur_mwh, RInt(-100))

\* Prices on both sides of the two limits.
LimitPrices == {-101, -100, -1, 0, 1000, 1001}

\* Lists of one price around the limits.
LimitLists == {<<[price_eur_mwh |-> RInt(a)]>> : a \in LimitPrices}

\* C27: validate_price_data rejects exactly the lists that are empty, or
\* have a price above 1000 or below -100, for the parsed series and for the
\* lists around the limits; a series that is validated goes on to be
\* formatted exactly when it is not rejected.
C27_RejectsOnlyExtremes ==
    /\ \A points \in LimitLists \cup {<<>>} :
          validate_price_data(points) = ~Rejectable(points)
    /\ ParseDone =>
          /\ validate_price_data(prices) = ~Rejectable(prices)
          /\ pc = "format" => ~Rejectable(prices)
          /\ pc = "done" => (data # None) = ~Rejectable(prices)

\* C27 witness: a series with a price of -100 and a price of 1000, too few
\* unique prices and an unexpected number of points has been accepted and
\* formatted.
C27_Witness ==
    /\ Returned
    /\ {"high", "negative", "few unique", "count"}
          \subseteq ValidationIssues(prices)
    /\ \E i \in 1..Len(prices) : prices[i].price_eur_mwh = RInt(-100)
    /\ \E i \in 1..Len(prices) : prices[i].price_eur_mwh = RInt(1000)

-----------------------------------------------------------------------------
(* Termination of main.                                                    *)

\* main runs on until it returns or exits: no step of it waits for another
\* process.
MainLiveSpec == MainInit /\ [][MainNext]_vars /\ WF_vars(MainNext)

\* main has returned, or has left through sys.exit(1).
Terminated == main_pc \in {"return", "exit"}

\* Day 0 is a Friday: days 1 and 2 of every week are Saturday and Sunday.
IsWeekend(d) == d % 7 \in {1, 2}

\* Yesterday, two days ago and the day after tomorrow, without the weekend
\* days.
WeekdayFallbacks ==
    SelectSeq(<<today - 1, today - 2, today + 2>>, LAMBDA d : ~IsWeekend(d))

\* The attempts so far are today, tomorrow, and then, only after both of
\* these failed, the weekday fallback dates in order, each after the failure
\* of all attempts before it.
AttemptsInOrder ==
    \A i \in 1..Len(attempts) :
        CASE i = 1 -> attempts[i].date = today
          [] i = 2 -> attempts[i].date = today + 1
          [] OTHER -> /\ i - 2 <= Len(WeekdayFallbacks)
                      /\ attempts[i].date = WeekdayFallbacks[i - 2]
                      /\ \A j \in 1..(i - 1) : attempts[j].data = None

\* What holds once main has ended: today and tomorrow were both attempted;
\* main left with status 1 exactly when every attempt failed, and then every
\* weekday fallback date was attempted; the record of every successful
\* attempt is saved under its date.
EndedProperly ==
    Terminated =>
      /\ Len(attempts) >= 2
      /\ (main_pc = "exit") = (\A i \in 1..Len(attempts) :
                                  attempts[i].data = None)
      /\ main_pc = "exit" => Len(attempts) = 2 + Len(WeekdayFallbacks)
      /\ \A i \in Successes :
            /\ DayJson(attempts[i].date) \in DOMAIN files
            /\ files[DayJson(attempts[i].date)] = [json |-> attempts[i].data]

C29_HoursAreConsecutive ==
    ParseDone =>
      /\ \A i \in 1..Len(prices) : prices[i].hour = i
      /\ \A i \in 1..(Len(prices) - 1) :
            prices[i].datetime.utc < prices[i + 1].datetime.utc
      /\ {prices[i].hour : i \in 1..Len(prices)} = 1..Len(prices)

\* C29 witness: a series of two points that does not start at local
\* midnight and misses the hour between its points.
C29_Witness ==
    /\ ParseDone
    /\ Len(prices) = 2
    /\ HourOf(prices[1].datetime) > 0
    /\ prices[2].datetime.utc - prices[1].datetime.utc > QuartersPerHour

----------------------------------------------------------------------------
(* fetch_prices of scrape_luminus.py: the sources tried one after another.  *)

\* The list alternative_urls of try_luminus_api_v2 has five entries; the
\* original endpoint is source 0, the alternatives are sources 1..5, the
\* web page of Luminus is source 6 and the page of Elia source 7.
NumAlternatives == 5

OriginalEndpoint == 0

AlternativeEndpoints == 1..NumAlternatives

ScrapeSource == NumAlternatives + 1

EliaSource == NumAlternatives + 2

\* A body that parses as JSON but is falsy in Python: {}, [], null, 0, "".
EmptyJson == [empty |-> TRUE]

\* What a source may answer: the request raises (time-out, no connection),
\* the status is 404 or 500, or the status is 200 with a body that is not
\* JSON, that is empty JSON, or that is JSON with content.  The content names
\* the source it came from, so that what fetch_prices returns can be traced.
LuminusAnswers(source) ==
    {[kind |-> k, body |-> None] : k \in {"error", "404", "500", "bad json"}}
        \cup {[kind |-> "json", body |-> EmptyJson],
              [kind |-> "json", body |-> [from |-> source]]}

\* What a page may answer: the request raises or fails, or a page comes back.
PageAnswers == {[kind |-> k, body |-> None] : k \in {"error", "page"}}

\* 'if data:' as an operator that keeps every value but None.
Truthy_NotNone(value) == value # None

\* 'if data:' of fetch_prices and of try_luminus_api_v2.
Truthy(value) == value \notin {None, EmptyJson}

\* try_luminus_api_v1: 404 gives None, raise_for_status turns 500 into a
\* RequestException, and so is the JSONDecodeError of resp.json(); each
\* RequestException gives None.  Otherwise the parsed body is returned.
try_luminus_api_v1(answer) ==
    CASE answer.kind = "404" -> None
      [] answer.kind \in {"error", "500", "bad json"} -> None
      [] OTHER -> answer.body

\* One turn of the loop of try_luminus_api_v2: the value it returns from
\* inside the loop, or None when the loop goes on to the next URL.
AlternativeReturns(answer) ==
    IF answer.kind = "json" /\ Truthy(answer.body) THEN answer.body ELSE None

LuminusInit ==
    /\ lum_pc = "v1"
    /\ contacted = <<>>
    /\ result = None
    /\ host_zone = "UTC"
    /\ target_date = 0
    /\ response = NoResponse
    /\ pc = "idle"
    /\ prices = <<>>
    /\ data = None
    /\ main_pc = "idle"
    /\ today = 0
    /\ attempts = <<>>
    /\ collected_data = <<>>
    /\ files = <<>>

luminus_frame ==
    UNCHANGED <<host_zone, target_date, response, pc, prices, data,
                main_pc, today, attempts, collected_data, files>>

\* data = try_luminus_api_v1(); if data: return data
TryOriginal ==
    /\ lum_pc = "v1"
    /\ \E answer \in LuminusAnswers(OriginalEndpoint) :
         LET value == try_luminus_api_v1(answer) IN
           /\ contacted' = Append(contacted, [source |-> OriginalEndpoint,
                                              answer |-> answer])
           /\ IF Truthy(value)
              THEN lum_pc' = "returned" /\ result' = value
              ELSE lum_pc' = "v2" /\ result' = result
    /\ luminus_frame

\* One URL of the loop of try_luminus_api_v2, in list order; after the last
\* one the function returns None and fetch_prices goes on to the pages.
TryAlternative ==
    /\ lum_pc = "v2"
    /\ LET url == Len(contacted) IN
         /\ url \in AlternativeEndpoints
         /\ \E answer \in LuminusAnswers(url) :
              LET value == AlternativeReturns(answer) IN
                /\ contacted' = Append(contacted, [source |-> url,
                                                   answer |-> answer])
                /\ IF Truthy(value)
                   THEN lum_pc' = "returned" /\ result' = value
                   ELSE /\ lum_pc' = IF url = NumAlternatives
                                     THEN "scrape" ELSE "v2"
                        /\ result' = result
    /\ luminus_frame

\* try_luminus_scrape(): every path returns None, and fetch_prices does not
\* look at what it returns.
TryScrape ==
    /\ lum_pc = "scrape"
    /\ \E answer \in PageAnswers :
         contacted' = Append(contacted, [source |-> ScrapeSource,
                                         answer |-> answer])
    /\ lum_pc' = "elia"
    /\ result' = result
    /\ luminus_frame

\* try_elia_spot_price(), which returns None as well, then 'return None'.
TryElia ==
    /\ lum_pc = "elia"
    /\ \E answer \in PageAnswers :
         contacted' = Append(contacted, [source |-> EliaSource,
                                         answer |-> answer])
    /\ lum_pc' = "returned"
    /\ result' = None
    /\ luminus_frame

LuminusNext == TryOriginal \/ TryAlternative \/ TryScrape \/ TryElia

LuminusSpec == LuminusInit /\ [][LuminusNext]_vars

\* The source of a contact is an endpoint that answered with JSON content.
Succeeded(contact) ==
    /\ contact.source \in {OriginalEndpoint} \cup AlternativeEndpoints
    /\ contact.answer.kind = "json"
    /\ contact.answer.body # EmptyJson

\* C30: fetch_prices contacts the sources in their fixed order, contacts none
\* after an endpoint has answered with non-empty JSON, and returns the data
\* of that endpoint; the two pages are read only when all six endpoints have
\* failed, and then it returns None.
C30_FirstSuccessWins ==
    /\ \A k \in 1..Len(contacted) : contacted[k].source = k - 1
    /\ \A k \in 1..Len(contacted) :
         Succeeded(contacted[k]) => k = Len(contacted) /\ lum_pc = "returned"
    /\ lum_pc = "returned" =>
         LET last == contacted[Len(contacted)] IN
           IF Succeeded(last)
           THEN result = last.answer.body /\ result = [from |-> last.source]
           ELSE /\ result = None
                /\ Len(contacted) = NumAlternatives + 3
                /\ last.source = EliaSource
    /\ lum_pc # "returned" => result = None

C30_Witness ==
    /\ lum_pc = "returned"
    /\ Len(contacted) = 4
    /\ contacted[1].answer.body = EmptyJson
    /\ contacted[2].answer.kind = "bad json"
    /\ contacted[3].answer.body = EmptyJson
    /\ result = [from |-> 3]

====
